---- MODULE Spec2Model ----
(***************************************************************************)
(* Tensor Logic engine (tensor_logic.c / tensor_logic.h): the knowledge    *)
(* store, the rule store and the inference loop, as a state machine.       *)
(*                                                                         *)
(* Numbers: a C float v is kept as the integer v*One (fixed point, three   *)
(* decimals); products are rescaled by One and quotients truncate toward   *)
(* zero.  Embeddings keep the first two of the TENSOR_EMBED_DIM            *)
(* components, so that tensor_tv_create's cos/sin table is <<1,0>>,<<0,1>>.*)
(* Pointers are heap addresses 1,2,.. in allocation order; NULL is 0.      *)
(***************************************************************************)
EXTENDS Integers, Sequences, FiniteSets, TLC

VARIABLES
    as,      \* TensorAtomSpace: maxatoms, natoms, next_id, atoms[] buckets
    atom,    \* heap of TensorAtom objects, by address
    rule,    \* heap of TensorRule objects, by address
    eng,     \* TensorLogicEngine: rules, num_rules, inference_chain
    inf,     \* heap of TensorInference nodes, by address
    call,    \* locals of the tensor_logic_infer call in progress
    ret,     \* what the last completed call returned, and what it saw
    ctx,     \* GradientContext of the engine: gradients, m, v, loss, num_steps
    kern     \* the OpenCog kernel: opencog_kernel, its AtomSpace, the Procs

vars == <<as, atom, rule, eng, inf, call, ret, ctx, kern>>

----------------------------------------------------------------------------
(* Bounds of the model *)

MaxCap == 2          \* capacities 1..MaxCap are passed to tensor_atomspace_create
MaxK == 3            \* get_top_k is called with k in 0..MaxK
MaxRules == 2        \* rule objects created
MaxAdds == 2         \* tensor_logic_add_rule calls
MaxCalls == 2        \* tensor_logic_infer calls
MaxSteps == 2        \* max_steps is drawn from 0..MaxSteps
MaxTrainRules == 1   \* rules created and added around train_step
MaxTrainCalls == 2   \* tensor_logic_train_step calls
MaxAdam == 2         \* direct gradient_context_apply_adam calls
GradCap == 40000     \* largest gradient magnitude accumulated (40.0)

(* Program constants *)

One == 1000          \* fixed-point unit (1.0f)
NULL == 0

----------------------------------------------------------------------------
(* Arithmetic helpers *)

\* C division truncates toward zero (the operand is bound once, as a value)
Quot(a, b) ==
    CHOOSE q \in { IF v >= 0 THEN v \div b ELSE -((-v) \div b) : v \in {a} } : TRUE

Mul(a, b) == Quot(a * b, One)

Min(a, b) == IF a < b THEN a ELSE b

RECURSIVE SqrtIter(_, _, _)
SqrtIter(n, lo, hi) ==
    IF lo >= hi THEN lo
    ELSE CHOOSE r \in { IF mid * mid <= n THEN SqrtIter(n, mid, hi)
                                          ELSE SqrtIter(n, lo, mid - 1) :
                          mid \in {(lo + hi + 1) \div 2} } : TRUE

\* sqrtf on a non-negative argument
ISqrt(n) == CHOOSE r \in { SqrtIter(v, 0, 2000) : v \in {n} } : TRUE

\* dot_product over the two kept components, unscaled (units of 1/One^2)
Dot(a, b) == a[1] * b[1] + a[2] * b[2]

\* expf, as a rational approximation that is positive and increasing
ExpFP(x) ==
    IF x <= 0 THEN Quot(One * One, One - x + Quot(x * x, 2 * One))
              ELSE One + x + Quot(x * x, 2 * One)

\* tanhf, as the odd Pade approximant x(27+x^2)/(27+9x^2)
tensor_tanh(x) ==
    CHOOSE t \in { Quot(v * (27 * One + q), 27 * One + 9 * q) :
                      <<v, q>> \in {<<x, Quot(x * x, One)>>} } : TRUE

----------------------------------------------------------------------------
(* Truth values *)

\* tensor_tv_create(strength, confidence); angle i*pi/DIM gives the
\* cos/sin rows <<1,0>> and <<0,1>> for the two kept components
tensor_tv_create(s, c) ==
    [strength   |-> s,
     confidence |-> c,
     evidence   |-> Quot(c * One, One - c + 1),
     embedding  |-> <<s, c>>]

\* the truth value of an atom created with tv == NULL
DefaultTv(r) ==
    [strength |-> 500, confidence |-> 100, evidence |-> 110, embedding |-> r]

----------------------------------------------------------------------------
(* Atoms and the atom space *)

RECURSIVE NameHash(_, _)
\* hash = ((hash << 5) + hash) + *c, from 5381
NameHash(name, h) ==
    IF name = <<>> THEN h
    ELSE NameHash(Tail(name), h * 33 + Head(name))

\* (float)((hash >> (i % 32)) & 0xFF) / 255.0f for i = 0, 1
HashByte(h, i) == Quot(((h \div (2 ^ i)) % 256) * One, 255)

\* atom->embedding[i] = atom->tv.embedding[i] * 0.5f + h * 0.5f
AtomEmbedding(tv, name) ==
    LET h == NameHash(name, 5381)
    IN  << Quot(tv.embedding[1], 2) + Quot(HashByte(h, 0), 2),
           Quot(tv.embedding[2], 2) + Quot(HashByte(h, 1), 2) >>

\* off-by-one variant of the capacity test
AtCapacity_gt(s) == s.natoms > s.maxatoms

\* if (as->natoms >= as->maxatoms) return NULL;
AtCapacity(s) == s.natoms >= s.maxatoms

\* variant that hands out the id without advancing the counter
AllocId_stuck(s) == [id |-> s.next_id, next_id |-> s.next_id]

\* atom->id = as->next_id++;
AllocId(s) == [id |-> s.next_id, next_id |-> s.next_id + 1]

\* tensor_atomspace_create(maxatoms)
tensor_atomspace_create(maxatoms) ==
    [maxatoms |-> maxatoms,
     natoms   |-> 0,
     next_id  |-> 1,
     atoms    |-> [i \in 0 .. maxatoms - 1 |-> NULL],
     rows     |-> {},
     training_steps |-> 0]

RECURSIVE ChainOf(_)
\* the atoms on a hash chain, from its head
ChainOf(a) == IF a = NULL THEN <<>> ELSE <<a>> \o ChainOf(atom[a].next)

\* the atoms linked in the buckets of the store
StoreAtoms ==
    UNION { { ChainOf(as.atoms[i])[j] : j \in 1 .. Len(ChainOf(as.atoms[i])) }
            : i \in 0 .. as.maxatoms - 1 }

RECURSIVE FindOnChain(_, _)
FindOnChain(a, id) ==
    IF a = NULL THEN NULL
    ELSE IF atom[a].id = id THEN a
    ELSE FindOnChain(atom[a].next, id)

\* tensor_atom_find_by_id(as, id)
tensor_atom_find_by_id(id) == FindOnChain(as.atoms[id % as.maxatoms], id)

\* tensor_atom_create(as, type, name, tv); tv = NULL draws a random embedding
CreateAtom(type, name, tv) ==
    /\ call.pc = "idle"
    /\ IF AtCapacity(as)
       THEN /\ ret' = [op |-> "create_atom", val |-> NULL, pre |-> as.natoms]
            /\ UNCHANGED <<as, atom>>
       ELSE LET a   == Len(atom) + 1
                nid == AllocId(as)
                idx == nid.id % as.maxatoms
                new == [id |-> nid.id, type |-> type, name |-> name, tv |-> tv,
                        embedding |-> AtomEmbedding(tv, name),
                        attention_weight |-> Quot(One, as.maxatoms),
                        outgoing |-> <<>>,
                        next |-> as.atoms[idx]]
            IN  /\ atom' = Append(atom, new)
                /\ as' = [as EXCEPT !.next_id = nid.next_id,
                                    !.atoms[idx] = a,
                                    !.natoms = @ + 1,
                                    !.rows = @ \cup {nid.id}]
                /\ ret' = [op |-> "create_atom", val |-> a, pre |-> as.natoms]
    /\ UNCHANGED <<rule, eng, inf, call, ctx, kern>>

----------------------------------------------------------------------------
(* Attention over the store *)

\* the largest element of a non-empty sequence of numbers
MaxOf(s) == CHOOSE m \in { s[i] : i \in 1 .. Len(s) } :
                \A i \in 1 .. Len(s) : s[i] <= m

RECURSIVE SumOf(_)
SumOf(s) == IF s = <<>> THEN 0 ELSE Head(s) + SumOf(Tail(s))

\* softmax_inplace(values, n), n >= 1
softmax_inplace(values) ==
    LET mx == MaxOf(values)
        ex == [i \in 1 .. Len(values) |-> ExpFP(values[i] - mx)]
        sm == SumOf(ex)
    IN  [i \in 1 .. Len(values) |-> Quot(ex[i] * One, sm)]

\* the scores tensor_atomspace_compute_attention leaves in attention_scores
AttentionScores(query) ==
    LET raw == [i \in 1 .. as.natoms |->
                   LET a == tensor_atom_find_by_id(i)
                   IN  IF a = NULL THEN 0
                       ELSE Quot(Quot(Dot(query, atom[a].embedding), One) * One,
                                 1414)]
    IN  IF as.natoms = 0 THEN <<>> ELSE softmax_inplace(raw)

\* the atom heap after tensor_atomspace_compute_attention(as, query)
ComputeAttentionAtoms(query) ==
    LET sc == AttentionScores(query)
    IN  [a \in 1 .. Len(atom) |->
            IF /\ atom[a].id \in 1 .. as.natoms
               /\ tensor_atom_find_by_id(atom[a].id) = a
            THEN [atom[a] EXCEPT !.attention_weight = sc[atom[a].id]]
            ELSE atom[a]]

\* the slot index (0-based) the inner loop of get_top_k settles on, or -1
BestIdx(atoms, selected) ==
    LET cand == { j \in 0 .. as.natoms - 1 :
                    /\ j \notin selected
                    /\ tensor_atom_find_by_id(j + 1) # NULL
                    /\ atoms[tensor_atom_find_by_id(j + 1)].attention_weight > -One }
        w(j) == atoms[tensor_atom_find_by_id(j + 1)].attention_weight
    IN  IF cand = {} THEN -1
        ELSE CHOOSE j \in cand :
                \A j2 \in cand : w(j) > w(j2) \/ (w(j) = w(j2) /\ j <= j2)

\* variant of the selection that forgets the selected[] marks
Unselected_none(selected) == {}

\* the marks `selected[j]` the scan skips
Unselected(selected) == selected

RECURSIVE SelectTop(_, _, _, _)
\* the outer loop of get_top_k: slot i of k; an unset slot keeps "unset"
SelectTop(atoms, i, k, selected) ==
    IF i >= k THEN <<>>
    ELSE LET b == BestIdx(atoms, Unselected(selected))
         IN  IF b = -1
             THEN <<"unset">> \o SelectTop(atoms, i + 1, k, selected)
             ELSE <<tensor_atom_find_by_id(b + 1)>>
                     \o SelectTop(atoms, i + 1, k, selected \cup {b})

\* tensor_atomspace_get_top_k(as, k) for k > 0: the array it returns
tensor_atomspace_get_top_k(atoms, k) ==
    SelectTop(atoms, 0, Min(k, as.natoms), {})

\* a caller runs tensor_atomspace_compute_attention(as, query)
ComputeAttention(q) ==
    /\ call.pc = "idle"
    /\ atom' = ComputeAttentionAtoms(q)
    /\ ret' = [op |-> "compute_attention", val |-> NULL, pre |-> as.natoms]
    /\ UNCHANGED <<as, rule, eng, inf, call, ctx, kern>>

\* a caller runs tensor_atomspace_get_top_k(as, k)
GetTopK(k) ==
    /\ call.pc = "idle"
    /\ ret' = [op |-> "get_top_k",
               val |-> IF k <= 0 THEN NULL
                       ELSE tensor_atomspace_get_top_k(atom, k),
               pre |-> k]
    /\ UNCHANGED <<as, atom, rule, eng, inf, call, ctx, kern>>

----------------------------------------------------------------------------
(* Similarity *)

\* cosine similarity of two embeddings; 0 when a norm vanishes
Similarity(e1, e2) ==
    CHOOSE s \in { IF denom < 1 THEN 0 ELSE Quot(Dot(e1, e2) * One, denom) :
                      denom \in {ISqrt(Dot(e1, e1)) * ISqrt(Dot(e2, e2))} } : TRUE

\* tensor_atom_similarity(a1, a2)
tensor_atom_similarity(a1, a2) ==
    IF a1 = NULL \/ a2 = NULL THEN 0
    ELSE Similarity(atom[a1].embedding, atom[a2].embedding)

\* tensor_atom_update_embedding(atom, new_embedding)
UpdateEmbedding(a, e) ==
    /\ call.pc = "idle"
    /\ a \in 1 .. Len(atom)
    /\ atom' = [atom EXCEPT ![a].embedding = e]
    /\ UNCHANGED <<as, rule, eng, inf, call, ret, ctx, kern>>

----------------------------------------------------------------------------
(* Rules *)

RULE_MAX_PREMISES == 16

\* tensor_rule_create(name, premises, num_premises, conclusion)
tensor_rule_create(premises, conclusion) ==
    [id         |-> Len(rule) + 1,
     weight     |-> One,
     confidence |-> 800,
     premises   |-> premises,
     conclusion |-> conclusion,
     premise_weights |-> [i \in 1 .. Len(premises) |-> Quot(One, Len(premises))],
     next       |-> NULL]

RuleCreate(premises, conclusion) ==
    /\ call.pc = "idle"
    /\ Len(premises) > 0
    /\ Len(premises) <= RULE_MAX_PREMISES
    /\ conclusion # NULL
    /\ rule' = Append(rule, tensor_rule_create(premises, conclusion))
    /\ ret' = [op |-> "rule_create", val |-> Len(rule) + 1, pre |-> 0]
    /\ UNCHANGED <<as, atom, eng, inf, call, ctx, kern>>

\* tensor_logic_add_rule(engine, rule)
AddRule(r) ==
    /\ call.pc = "idle"
    /\ eng.alive
    /\ r \in 1 .. Len(rule)
    /\ rule' = [rule EXCEPT ![r].next = eng.rules]
    /\ eng' = [eng EXCEPT !.rules = r, !.num_rules = @ + 1]
    /\ UNCHANGED <<as, atom, inf, call, ret, ctx, kern>>

\* the rules reachable from a head pointer by following next
RECURSIVE ReachFrom(_, _)
ReachFrom(r, seen) ==
    IF r = NULL \/ r \in seen THEN seen
    ELSE ReachFrom(rule[r].next, seen \cup {r})

RulesInList == ReachFrom(eng.rules, {})

RECURSIVE CyclicFrom(_, _)
CyclicFrom(r, seen) ==
    IF r = NULL THEN FALSE
    ELSE IF r \in seen THEN TRUE
    ELSE CyclicFrom(rule[r].next, seen \cup {r})

\* the next pointers from engine->rules come back to a rule already passed
RuleListCyclic == CyclicFrom(eng.rules, {})

\* variant that returns the blended strength instead of new_strength
ApplyResult_blended(new_strength, blended) == blended

\* return new_strength;
ApplyResult(new_strength, blended) == new_strength

RECURSIVE WeightedStrength(_, _)
\* combined_strength += rule->premise_weights[i] * premise->tv.strength
WeightedStrength(r, i) ==
    IF i > Len(rule[r].premises) THEN 0
    ELSE Mul(rule[r].premise_weights[i], atom[rule[r].premises[i]].tv.strength)
            + WeightedStrength(r, i + 1)

RECURSIVE ProductConfidence(_, _)
\* combined_confidence *= premise->tv.confidence
ProductConfidence(r, i) ==
    IF i > Len(rule[r].premises) THEN One
    ELSE Mul(atom[rule[r].premises[i]].tv.confidence, ProductConfidence(r, i + 1))

RECURSIVE WeightedEmbedding(_, _, _)
\* combined_embedding[j] += rule->premise_weights[i] * premise->embedding[j]
WeightedEmbedding(r, i, j) ==
    IF i > Len(rule[r].premises) THEN 0
    ELSE Mul(rule[r].premise_weights[i], atom[rule[r].premises[i]].embedding[j])
            + WeightedEmbedding(r, i + 1, j)

\* variant of apply that overwrites the conclusion strength instead of averaging
tensor_rule_apply_overwrite(r) ==
    CHOOSE ap \in
        { [atoms |-> [atom EXCEPT ![rule[r].conclusion].tv.strength = new_strength],
           result |-> new_strength] :
            new_strength \in {Mul(WeightedStrength(r, 1), rule[r].weight)} } : TRUE

\* tensor_rule_apply(rule, as): the atom heap afterwards and the value returned
tensor_rule_apply(r) ==
    LET c   == rule[r].conclusion
        new_strength   == Mul(WeightedStrength(r, 1), rule[r].weight)
        new_confidence == Mul(ProductConfidence(r, 1), rule[r].confidence)
        blended == Quot(atom[c].tv.strength + new_strength, 2)
        emb == [j \in 1 .. 2 |->
                   Mul(900, atom[c].embedding[j])
                     + Mul(100, tensor_tanh(WeightedEmbedding(r, 1, j)))]
    IN  [atoms |-> [atom EXCEPT
                      ![c].tv.strength = blended,
                      ![c].tv.confidence =
                          Quot(atom[c].tv.confidence + new_confidence, 2),
                      ![c].embedding = <<emb[1], emb[2]>>],
         result |-> ApplyResult(new_strength, blended)]

----------------------------------------------------------------------------
(* tensor_logic_infer *)

TopK == 10           \* int k = 10;

\* what the word after the relevant[] array holds when fewer than k slots
\* were allocated: NULL, a stale pointer to atom-like memory, or a wild pointer
StrayMenu ==
    { [kind |-> "null", embedding |-> <<0, 0>>],
      [kind |-> "junk", embedding |-> <<900, 100>>],
      [kind |-> "wild", embedding |-> <<0, 0>>] }

NoStray == [kind |-> "none", embedding |-> <<0, 0>>]

\* max_sim over `for (j = 0; j < k && relevant[j]; j++)`
MaxSim(p, relevant, stray) ==
    CHOOSE m \in
        { CHOOSE x \in sims : \A y \in sims : y <= x :
            sims \in { { tensor_atom_similarity(p, relevant[j]) :
                            j \in 1 .. Len(relevant) }
                        \cup (IF stray.kind = "junk"
                              THEN { Similarity(atom[p].embedding, stray.embedding) }
                              ELSE {})
                        \cup {0} } } : TRUE

RECURSIVE PremiseScan(_, _, _, _, _)
\* the premise loop of one rule: [satisfied, score]
PremiseScan(r, i, score, relevant, stray) ==
    IF i > Len(rule[r].premises) THEN [satisfied |-> TRUE, score |-> score]
    ELSE CHOOSE ev \in
             { IF max_sim < 500 THEN [satisfied |-> FALSE, score |-> score]
               ELSE PremiseScan(r, i + 1,
                                score + Mul(max_sim, rule[r].premise_weights[i]),
                                relevant, stray) :
                 max_sim \in {MaxSim(rule[r].premises[i], relevant, stray)} } : TRUE

\* variant of the selection test that takes any rule scoring at least as high
Better_any(ev, best_score) == ev.score >= best_score

\* if (satisfied && score > best_score)
Better(ev, best_score) == ev.satisfied /\ ev.score > best_score

\* variant of the satisfaction test that never stops the loop
QuerySatisfied_never(query_sim) == FALSE

\* if (query_sim > 0.9f) break;
QuerySatisfied(query_sim) == query_sim > 900

\* variant of the loop test that allows one step more
StepAllowed_le(step, max_steps) == step <= max_steps

\* for (...; step < max_steps; ...)
StepAllowed(step, max_steps) == step < max_steps

IdleCall ==
    [pc |-> "idle", query |-> NULL, max_steps |-> 0, step |-> 0,
     relevant |-> <<>>, stray |-> NoStray, chain |-> NULL, last |-> NULL,
     cursor |-> NULL, best_rule |-> NULL, best_score |-> 0,
     oob |-> FALSE, exit |-> "none", tick |-> 0,
     mode |-> "infer", target |-> 0]

\* entry of tensor_logic_infer up to the first test of the step loop, for a
\* direct call (mode "infer") or the call train_step makes (mode "train")
BeginCall(q, max_steps, stray, mode, target) ==
    /\ call.pc = "idle"
    /\ eng.alive
    /\ q \in 1 .. Len(atom)
    /\ LET atoms == ComputeAttentionAtoms(atom[q].embedding)
           rel   == tensor_atomspace_get_top_k(atoms, TopK)
       IN  /\ atom' = atoms
           /\ (Len(rel) < TopK) = (stray.kind # "none")
           /\ call' = [IdleCall EXCEPT
                         !.pc = IF StepAllowed(0, max_steps) THEN "scan" ELSE "ret",
                         !.exit = IF StepAllowed(0, max_steps) THEN "none"
                                  ELSE "Exhausted",
                         !.query = q, !.max_steps = max_steps,
                         !.mode = mode, !.target = target,
                         !.relevant = rel, !.stray = stray,
                         !.cursor = eng.rules]
    /\ eng' = [eng EXCEPT !.calls = @ + 1]
    /\ UNCHANGED <<as, rule, inf, ret, ctx, kern>>

\* tensor_logic_infer(engine, query, max_steps) called directly
InferBegin(q, max_steps, stray) == BeginCall(q, max_steps, stray, "infer", 0)

\* one pass of `for (rule = engine->rules; rule; rule = rule->next)`
InferScan ==
    /\ call.pc = "scan"
    /\ call.cursor # NULL
    /\ \E r \in {call.cursor} :
       \E ev \in {PremiseScan(r, 1, 0, call.relevant, call.stray)} :
           IF call.stray.kind = "wild"
           THEN call' = [call EXCEPT !.pc = "fault", !.oob = TRUE]
           ELSE call' = [call EXCEPT
                           !.cursor = rule[r].next,
                           !.tick = 1 - @,
                           !.oob = @ \/ (call.stray.kind # "none"),
                           !.best_rule = IF Better(ev, call.best_score)
                                         THEN r ELSE @,
                           !.best_score = IF Better(ev, call.best_score)
                                          THEN ev.score ELSE @]
    /\ UNCHANGED <<as, atom, rule, eng, inf, ret, ctx, kern>>

\* the attention_pattern snapshot: relevant[i]->attention_weight, i < k
\* (the word a stale stray slot adds lies in the k floats allocated)
AttentionPattern(atoms, relevant, stray) ==
    [i \in 1 .. Len(relevant) |-> atoms[relevant[i]].attention_weight]

\* the rest of a step once the rule scan is over: apply, record, test
InferApply ==
    /\ call.pc = "scan"
    /\ call.cursor = NULL
    /\ IF call.best_rule = NULL
       THEN /\ call' = [call EXCEPT !.pc = "ret", !.exit = "NoRule"]
            /\ UNCHANGED <<atom, inf>>
       ELSE \E r \in {call.best_rule} :
            \E ap \in {tensor_rule_apply(r)} :
            \E qsim \in {Similarity(ap.atoms[call.query].embedding,
                                    ap.atoms[rule[r].conclusion].embedding)} :
            \E more \in {~QuerySatisfied(qsim)
                            /\ StepAllowed(call.step + 1, call.max_steps)} :
            LET n    == Len(inf) + 1
                node == [rule |-> r, conclusion |-> rule[r].conclusion,
                         confidence |-> Mul(ap.result, rule[r].confidence),
                         attention_pattern |->
                             AttentionPattern(ap.atoms, call.relevant, call.stray),
                         next |-> NULL, live |-> TRUE,
                         result |-> ap.result,
                         prior |-> atom[rule[r].conclusion].tv.strength,
                         call |-> eng.calls]
                linked == IF call.last # NULL
                          THEN [inf EXCEPT ![call.last].next = n]
                          ELSE inf
            IN  /\ atom' = ap.atoms
                /\ inf' = Append(linked, node)
                /\ call' = [call EXCEPT
                              !.chain = IF call.last # NULL THEN @ ELSE n,
                              !.last = n,
                              !.step = IF QuerySatisfied(qsim) THEN @ ELSE @ + 1,
                              !.pc = IF more THEN "scan" ELSE "ret",
                              !.exit = IF QuerySatisfied(qsim) THEN "Satisfied"
                                       ELSE IF more THEN "none" ELSE "Exhausted",
                              !.cursor = eng.rules,
                              !.tick = 0,
                              !.best_rule = NULL,
                              !.best_score = 0]
    /\ UNCHANGED <<as, rule, eng, ret, ctx, kern>>

\* free(relevant); engine->inference_chain = chain; return chain;
InferReturn ==
    /\ call.pc = "ret"
    /\ call.mode = "infer"
    /\ eng' = [eng EXCEPT !.inference_chain = call.chain]
    /\ ret' = [op |-> "infer", val |-> call.chain, pre |-> call.max_steps]
    /\ call' = IdleCall
    /\ UNCHANGED <<as, atom, rule, inf, ctx, kern>>

RECURSIVE NodesFrom(_)
\* the nodes of an inference chain, from its head
NodesFrom(n) == IF n = NULL THEN <<>> ELSE <<n>> \o NodesFrom(inf[n].next)

SeqToSet(s) == { s[i] : i \in 1 .. Len(s) }

\* tensor_logic_destroy(engine): frees the rules on the list and the nodes
\* of engine->inference_chain; a cyclic rule list is walked through freed
\* memory and ends in a fault
EngineDestroy ==
    /\ call.pc = "idle"
    /\ eng.alive
    /\ IF RuleListCyclic
       THEN /\ call' = [call EXCEPT !.pc = "fault"]
            /\ UNCHANGED <<inf, eng>>
       ELSE /\ inf' = [n \in 1 .. Len(inf) |->
                         IF n \in SeqToSet(NodesFrom(eng.inference_chain))
                         THEN [inf[n] EXCEPT !.live = FALSE] ELSE inf[n]]
            /\ eng' = [eng EXCEPT !.alive = FALSE, !.rules = NULL,
                                  !.inference_chain = NULL]
            /\ UNCHANGED call
    /\ ret' = [op |-> "destroy", val |-> NULL, pre |-> 0]
    /\ UNCHANGED <<as, atom, rule, ctx, kern>>

----------------------------------------------------------------------------
(* Gradient context and training; the buffers keep their first three slots *)

TrainSteps == 5      \* tensor_logic_infer(engine, query, 5)
Beta1 == 900         \* ctx->beta1 = 0.9f
Beta2 == 999         \* ctx->beta2 = 0.999f
LearnRate == 1       \* float lr = 0.001f

ZeroBuf == <<0, 0, 0>>

\* gradient_context_create(size): calloc'ed buffers, loss and step count 0
gradient_context_create ==
    [gradients |-> ZeroBuf, m |-> ZeroBuf, v |-> ZeroBuf,
     loss |-> 0, num_steps |-> 0]

\* tensor_logic_create(as): no rules, no chain, four weight buffers filled
\* by init_random_embedding
tensor_logic_create ==
    [rules |-> NULL, num_rules |-> 0, inference_chain |-> NULL,
     alive |-> TRUE, calls |-> 0,
     query_weights  |-> <<700, -300, 120>>,
     key_weights    |-> <<-82, -39, 510>>,
     value_weights  |-> <<15, 640, -480>>,
     output_weights |-> <<-910, 44, 260>>]

\* variant of zero that also resets the Adam state
gradient_context_zero_reset(c) ==
    [c EXCEPT !.gradients = ZeroBuf, !.loss = 0, !.m = ZeroBuf, !.num_steps = 0]

\* gradient_context_zero(ctx): memset(gradients), loss = 0
gradient_context_zero(c) == [c EXCEPT !.gradients = ZeroBuf, !.loss = 0]

\* gradient_context_accumulate(ctx, grads, size)
gradient_context_accumulate(c, grads) ==
    [c EXCEPT !.gradients = [i \in 1 .. Len(@) |-> @[i] + grads[i]]]

RECURSIVE PowFP(_, _)
\* powf(b, t) for a step count t >= 0
PowFP(b, t) == IF t = 0 THEN One ELSE Mul(b, PowFP(b, t - 1))

\* sqrtf(v_hat) in fixed point
AdamSqrt(x) == CHOOSE r \in { SqrtIter(v * One, 0, 46340) : v \in {x} } : TRUE

\* lr * m_hat / (sqrtf(v_hat) + epsilon); epsilon matters only when the
\* square root vanishes, and then m_hat is 0 unless the moments underflow
AdamDelta(m_hat, v_hat) ==
    IF m_hat = 0 THEN 0
    ELSE CHOOSE d \in { Quot(LearnRate * m_hat, IF root = 0 THEN 1 ELSE root) :
                          root \in {AdamSqrt(v_hat)} } : TRUE

\* variant of the Adam step that counts every call twice
AdamCount_twice(c) == c.num_steps + 2

\* ctx->num_steps++
AdamCount(c) == c.num_steps + 1

\* gradient_context_apply_adam(ctx, weights, size): the context and the
\* weights afterwards
gradient_context_apply_adam(c, weights) ==
    CHOOSE out \in
      { [ctx |-> [c EXCEPT !.num_steps = t, !.m = m, !.v = v],
         weights |-> [i \in 1 .. Len(weights) |->
                        weights[i] - AdamDelta(Quot(m[i] * One, One - PowFP(Beta1, t)),
                                               Quot(v[i] * One, One - PowFP(Beta2, t)))]] :
          <<t, m, v>> \in
            { <<AdamCount(c),
                [i \in 1 .. Len(c.m) |->
                    Mul(Beta1, c.m[i]) + Mul(One - Beta1, c.gradients[i])],
                [i \in 1 .. Len(c.v) |->
                    Mul(Beta2, c.v[i])
                      + Mul(One - Beta2, Mul(c.gradients[i], c.gradients[i]))]>> } } : TRUE

\* variant of the clamp that forgets the upper limit
ClampWeight_floor(w) == IF w < 0 THEN 0 ELSE w

\* if (weight < 0.0f) weight = 0.0f; if (weight > 2.0f) weight = 2.0f;
ClampWeight(w) == IF w < 0 THEN 0 ELSE IF w > 2 * One THEN 2 * One ELSE w

\* variant of the renormalisation that leaves the weights as they are
NormalizeWeights_skip(ws) == ws

\* premise_weights[i] /= sum
NormalizeWeights(ws) ==
    CHOOSE out \in { [i \in 1 .. Len(ws) |-> Quot(ws[i] * One, sum)] :
                       sum \in {SumOf(ws)} } : TRUE

\* tensor_rule_update_weights(rule, ctx): the rule afterwards
tensor_rule_update_weights(rl, c) ==
    [rl EXCEPT
       !.weight = ClampWeight(@ - Mul(c.gradients[1], 10)),
       !.premise_weights =
           NormalizeWeights(
             [i \in 1 .. Len(rl.premises) |->
                 CHOOSE w \in { IF x < 10 THEN 10 ELSE x :
                                  x \in {rl.premise_weights[i]
                                           - Mul(c.gradients[i + 1], 1)} } : TRUE])]

\* gradient_context_accumulate on the engine's context
Accumulate(grads) ==
    /\ call.pc = "idle"
    /\ ctx' = gradient_context_accumulate(ctx, grads)
    /\ \A i \in 1 .. Len(grads) :
          /\ ctx'.gradients[i] <= GradCap
          /\ ctx'.gradients[i] >= -GradCap
    /\ ret' = [op |-> "accumulate", val |-> NULL, pre |-> 0]
    /\ UNCHANGED <<as, atom, rule, eng, inf, call, kern>>

\* ctx->loss = 5.0f, written by the caller
StoreLoss(l) ==
    /\ call.pc = "idle"
    /\ ctx.loss = 0
    /\ ctx' = [ctx EXCEPT !.loss = l]
    /\ ret' = [op |-> "store_loss", val |-> NULL, pre |-> 0]
    /\ UNCHANGED <<as, atom, rule, eng, inf, call, kern>>

\* gradient_context_zero on the engine's context
Zero ==
    /\ call.pc = "idle"
    /\ ctx' = gradient_context_zero(ctx)
    /\ ret' = [op |-> "zero", val |-> NULL, pre |-> ctx]
    /\ UNCHANGED <<as, atom, rule, eng, inf, call, kern>>

\* gradient_context_apply_adam(engine->grad_ctx, engine->query_weights, size)
ApplyAdam ==
    /\ call.pc = "idle"
    /\ eng.alive
    /\ \E out \in {gradient_context_apply_adam(ctx, eng.query_weights)} :
          /\ ctx' = out.ctx
          /\ eng' = [eng EXCEPT !.query_weights = out.weights]
    /\ ret' = [op |-> "apply_adam", val |-> NULL, pre |-> ctx.num_steps]
    /\ UNCHANGED <<as, atom, rule, inf, call, kern>>

\* tensor_rule_update_weights(rule, engine->grad_ctx)
UpdateWeights(r) ==
    /\ call.pc = "idle"
    /\ r \in 1 .. Len(rule)
    /\ rule' = [rule EXCEPT ![r] = tensor_rule_update_weights(@, ctx)]
    /\ ret' = [op |-> "update_weights", val |-> r, pre |-> 0]
    /\ UNCHANGED <<as, atom, eng, inf, call, ctx, kern>>

\* tensor_logic_train_step(engine, query, target) up to the step loop of
\* the inference it runs
TrainBegin(q, target, stray) ==
    BeginCall(q, TrainSteps, stray, "train", target.strength)

RECURSIVE BackwardRules(_, _, _)
\* for (inf = engine->inference_chain; inf; inf = inf->next)
\*     tensor_rule_update_weights(inf->rule, engine->grad_ctx);
BackwardRules(rules, n, c) ==
    IF n = NULL THEN rules
    ELSE BackwardRules(
            [rules EXCEPT ![inf[n].rule] = tensor_rule_update_weights(@, c)],
            inf[n].next, c)

\* variant of backward that forgets to count the training step
TrainingStepsAfter_same(s) == s.training_steps

\* engine->atomspace->training_steps++
TrainingStepsAfter(s) == s.training_steps + 1

\* tensor_logic_backward(engine) with engine->inference_chain = chain:
\* zero, update the rules of the chain, four Adam steps, count the step
tensor_logic_backward(c0, chain) ==
    LET c  == gradient_context_zero(c0)
        a1 == gradient_context_apply_adam(c, eng.query_weights)
        a2 == gradient_context_apply_adam(a1.ctx, eng.key_weights)
        a3 == gradient_context_apply_adam(a2.ctx, eng.value_weights)
        a4 == gradient_context_apply_adam(a3.ctx, eng.output_weights)
    IN  [rules |-> BackwardRules(rule, chain, c),
         ctx |-> a4.ctx,
         query_weights |-> a1.weights, key_weights |-> a2.weights,
         value_weights |-> a3.weights, output_weights |-> a4.weights,
         training_steps |-> TrainingStepsAfter(as)]

\* (pred_strength - target_strength) * (pred_strength - target_strength)
SquaredError(pred_strength, target_strength) ==
    Mul(pred_strength - target_strength, pred_strength - target_strength)

\* the rest of tensor_logic_train_step once the inference returns its chain
\* the parameters training adjusts: each rule's weight and premise weights
\* and the four projection matrices
Learnable ==
    [rules |-> [r \in 1 .. Len(rule) |->
                  <<rule[r].weight, rule[r].premise_weights>>],
     matrices |-> <<eng.query_weights, eng.key_weights,
                    eng.value_weights, eng.output_weights>>]

TrainReturn ==
    /\ call.pc = "ret"
    /\ call.mode = "train"
    /\ IF call.chain # NULL
       THEN \E loss \in {SquaredError(atom[inf[call.chain].conclusion].tv.strength,
                                      call.target)} :
            \E bw \in {tensor_logic_backward([ctx EXCEPT !.loss = loss], call.chain)} :
               /\ rule' = bw.rules
               /\ ctx' = bw.ctx
               /\ eng' = [eng EXCEPT !.inference_chain = call.chain,
                                     !.query_weights = bw.query_weights,
                                     !.key_weights = bw.key_weights,
                                     !.value_weights = bw.value_weights,
                                     !.output_weights = bw.output_weights]
               /\ as' = [as EXCEPT !.training_steps = bw.training_steps]
       ELSE /\ eng' = [eng EXCEPT !.inference_chain = call.chain]
            /\ UNCHANGED <<rule, ctx, as>>
    /\ ret' = [op |-> "train_step", val |-> call.chain,
               pre |-> [target |-> call.target,
                        training_steps |-> as.training_steps,
                        num_steps |-> ctx.num_steps,
                        last |-> call.last,
                        loss |-> IF call.chain = NULL THEN 0
                                 ELSE SquaredError(
                                        atom[inf[call.chain].conclusion].tv.strength,
                                        call.target),
                        learnable |-> Learnable]]
    /\ call' = IdleCall
    /\ UNCHANGED <<atom, inf, kern>>

----------------------------------------------------------------------------
(* The OpenCog kernel *)

NProcs == 2
MaxSpaces == 1
MaxAtomsMenu == 2
MaxOverfill == 2
MaxStates == 3

Procs == 1 .. NProcs

\* a Proc before proc_cognitive_init; op, pc, cs and tmp are the operation
\* running on behalf of the process, its position and its locals
IdleProc == [cognitive |-> NULL, op |-> "none", pc |-> "idle",
             cs |-> NULL, tmp |-> 0, pri |-> 50, state |-> "Ready"]

\* the scheduler before a pass: its position, the process it is at, the
\* nsec() it read and what it saw when the pass began
IdleSched == [pc |-> "idle", cur |-> 0, now |-> 0]

\* the threads that enter the kernel's cognitive code: one per process and
\* the scheduler
SchedThread == NProcs + 1
Threads == 1 .. SchedThread

\* the Lock structures: opencog_lock, and one per atom space, cognitive
\* state, reasoning engine (0: the global reasoner) and goal (0: the system
\* goals)
LockSet ==
    {<<"opencog", 0>>, <<"re", 0>>, <<"goal", 0>>}
        \cup { <<k, p>> : k \in {"as", "cs", "re", "goal"}, p \in Procs }

\* a thread outside the cognitive code: the lock and unlock calls of the
\* operation it runs, and how far it got
IdleThread == [op |-> "none", prog |-> <<>>, pc |-> 1]

\* opencoginit(): the counters start at 0 and opencog_lock is free
opencoginit ==
    [cognitive_processes |-> 0,
     total_atoms         |-> 0,
     lock                |-> NULL,
     spaces              |-> <<>>,
     states              |-> <<>>,
     proc                |-> [p \in Procs |-> IdleProc],
     reasoning_cycles    |-> 0,
     global_last_cycle   |-> 0,
     clock               |-> 0,
     writes              |-> 0,
     thr                 |-> [t \in Threads |-> IdleThread],
     locks               |-> [l \in LockSet |-> NULL],
     sched               |-> IdleSched]

\* atomspace_create(maxatoms)
atomspace_create(maxatoms) ==
    [natoms |-> 0, maxatoms |-> maxatoms, next_id |-> 1,
     atoms |-> [b \in 0 .. maxatoms - 1 |-> <<>>]]

AtomspaceCreate(maxatoms) ==
    /\ kern' = [kern EXCEPT !.spaces = Append(@, atomspace_create(maxatoms))]
    /\ ret' = [op |-> "atomspace_create", val |-> Len(kern.spaces) + 1,
               pre |-> maxatoms]
    /\ UNCHANGED <<as, atom, rule, eng, inf, call, ctx>>

\* atom_create(as, type, name, tv) of the kernel: the atom is linked into
\* bucket id % maxatoms and counted, whatever natoms is
atom_create(sp) ==
    LET id   == sp.next_id
        hash == id % sp.maxatoms
    IN  [sp EXCEPT !.next_id = id + 1,
                   !.atoms[hash] = <<id>> \o @,
                   !.natoms = @ + 1]

KernelAtomCreate(s) ==
    /\ kern.lock = NULL
    /\ kern' = [kern EXCEPT !.spaces[s] = atom_create(@),
                            !.total_atoms = @ + 1]
    /\ ret' = [op |-> "atom_create", val |-> kern.spaces[s].next_id,
               pre |-> [space |-> s, natoms |-> kern.spaces[s].natoms]]
    /\ UNCHANGED <<as, atom, rule, eng, inf, call, ctx>>

\* cognitive_create(): the fields of a new state, owned by process p
cognitive_create(p) ==
    [live |-> TRUE, owner |-> p, attention_level |-> 500, motivation |-> 500,
     think_time |-> 0, last_cycle |-> 0, lock |-> "free"]

\* proc_cognitive_init(p), up to the lock in cognitive_create: the state is
\* allocated with its local atom space
ProcCognitiveInit(p) ==
    /\ kern.proc[p].pc = "idle"
    /\ kern' = [kern EXCEPT
                  !.states = Append(@, cognitive_create(p)),
                  !.proc[p] = [@ EXCEPT !.op = "init", !.pc = "lock",
                                        !.cs = Len(kern.states) + 1]]
    /\ UNCHANGED <<as, atom, rule, eng, inf, call, ret, ctx>>

\* variant of the cleanup guard that never finds the process without a state
HasCognitive_always(pr) == TRUE

\* if (p == nil || p->cognitive == nil) return;
HasCognitive(pr) == pr.cognitive # NULL

\* proc_cognitive_cleanup(p), up to the lock
ProcCognitiveCleanup(p) ==
    /\ kern.proc[p].pc = "idle"
    /\ IF HasCognitive(kern.proc[p])
       THEN kern' = [kern EXCEPT
                       !.proc[p] = [@ EXCEPT !.op = "cleanup", !.pc = "lock",
                                             !.cs = kern.proc[p].cognitive]]
       ELSE kern' = [kern EXCEPT !.proc[p] = [@ EXCEPT !.op = "none"]]
    /\ UNCHANGED <<as, atom, rule, eng, inf, call, ret, ctx>>

\* lock(&opencog_lock)
KernelLock(p) ==
    /\ kern.proc[p].pc = "lock"
    /\ kern.lock = NULL
    /\ kern' = [kern EXCEPT !.lock = p, !.proc[p].pc = "load"]
    /\ UNCHANGED <<as, atom, rule, eng, inf, call, ret, ctx>>

\* opencog_kernel.cognitive_processes++ / --: the load
KernelLoad(p) ==
    /\ kern.proc[p].pc = "load"
    /\ kern' = [kern EXCEPT !.proc[p].tmp = kern.cognitive_processes,
                            !.proc[p].pc = "store"]
    /\ UNCHANGED <<as, atom, rule, eng, inf, call, ret, ctx>>

\* opencog_kernel.cognitive_processes++ / --: the store
KernelStore(p) ==
    /\ kern.proc[p].pc = "store"
    /\ kern' = [kern EXCEPT
                  !.cognitive_processes =
                      IF kern.proc[p].op = "init" THEN kern.proc[p].tmp + 1
                      ELSE kern.proc[p].tmp - 1,
                  !.proc[p].pc = "unlock"]
    /\ UNCHANGED <<as, atom, rule, eng, inf, call, ret, ctx>>

\* unlock(&opencog_lock)
KernelUnlock(p) ==
    /\ kern.proc[p].pc = "unlock"
    /\ kern' = [kern EXCEPT !.lock = NULL, !.proc[p].pc = "finish"]
    /\ UNCHANGED <<as, atom, rule, eng, inf, call, ret, ctx>>

\* the end of the operation: p->cognitive = cognitive_create(), or
\* free(cs); p->cognitive = nil
KernelFinish(p) ==
    /\ kern.proc[p].pc = "finish"
    /\ kern' = [kern EXCEPT
                  !.states =
                      IF kern.proc[p].op = "cleanup" /\ kern.proc[p].cs # NULL
                      THEN [@ EXCEPT ![kern.proc[p].cs].live = FALSE]
                      ELSE @,
                  !.proc[p] = [@ EXCEPT
                      !.cognitive = IF kern.proc[p].op = "init"
                                    THEN kern.proc[p].cs ELSE NULL,
                      !.pc = "idle", !.cs = NULL, !.tmp = 0]]
    /\ UNCHANGED <<as, atom, rule, eng, inf, call, ret, ctx>>

\* p->pri and p->state as the process scheduler sets them
ProcSet(p, pri, st) ==
    /\ kern.sched.pc = "idle"
    /\ kern.proc[p].pri # pri \/ kern.proc[p].state # st
    /\ kern' = [kern EXCEPT !.proc[p].pri = pri, !.proc[p].state = st]
    /\ ret' = [op |-> "proc_set", val |-> p, pre |-> 0]
    /\ UNCHANGED <<as, atom, rule, eng, inf, call, ctx>>

\* if (p->state == Running || p->state == Ready)
Active(pr) == pr.state \in {"Running", "Ready"}

\* the processes a pass is expected to reason for
ActiveCognitive ==
    { p \in Procs : kern.proc[p].cognitive # NULL /\ Active(kern.proc[p]) }

\* the scheduler moves on to p->qnext, or to the global reasoner
SchedAdvance(sc) ==
    IF sc.cur < NProcs THEN [sc EXCEPT !.pc = "visit", !.cur = @ + 1]
    ELSE [sc EXCEPT !.pc = "global", !.cur = 0]

\* cognitive_schedule(): now = nsec(), p = first process of the list
SchedBegin ==
    /\ kern.sched.pc = "idle"
    /\ kern' = [kern EXCEPT
                  !.clock = @ + 1,
                  !.sched = [pc |-> "visit", cur |-> 1, now |-> kern.clock + 1]]
    /\ ret' = [op |-> "schedule_begin", val |-> NULL,
               pre |-> [reasoning_cycles |-> kern.reasoning_cycles,
                        active |-> Cardinality(ActiveCognitive)]]
    /\ UNCHANGED <<as, atom, rule, eng, inf, call, ctx>>

\* if (p->cognitive == nil) continue; cs = p->cognitive; lock(&cs->Lock)
SchedLock ==
    /\ kern.sched.pc = "visit"
    /\ LET p == kern.sched.cur
           c == kern.proc[p].cognitive
       IN  IF c = NULL
           THEN kern' = [kern EXCEPT !.sched = SchedAdvance(@)]
           ELSE /\ kern.states[c].lock = "free"
                /\ kern' = [kern EXCEPT !.states[c].lock = "sched",
                                        !.sched.pc = "locked"]
    /\ UNCHANGED <<as, atom, rule, eng, inf, call, ret, ctx>>

\* cs->attention_level = (float)p->pri / 100.0, capped at 1.0 from above
ScheduleAttention(pri) ==
    IF Quot(pri * One, 100) > One THEN One ELSE Quot(pri * One, 100)

\* the body of the loop under cs->Lock: attention, reasoning_cycle of the
\* process's reasoner (re->last_cycle = now) and think_time
SchedUpdate ==
    /\ kern.sched.pc = "locked"
    /\ LET p  == kern.sched.cur
           c  == kern.proc[p].cognitive
           lc == IF Active(kern.proc[p]) THEN kern.sched.now
                 ELSE kern.states[c].last_cycle
       IN  kern' = [kern EXCEPT
                      !.states[c].attention_level =
                          ScheduleAttention(kern.proc[p].pri),
                      !.states[c].last_cycle = lc,
                      !.states[c].think_time =
                          IF Active(kern.proc[p])
                          THEN @ + (kern.sched.now - lc) ELSE @,
                      !.sched.pc = "unlock"]
    /\ UNCHANGED <<as, atom, rule, eng, inf, call, ret, ctx>>

\* unlock(&cs->Lock); p = p->qnext
SchedUnlock ==
    /\ kern.sched.pc = "unlock"
    /\ kern' = [kern EXCEPT
                  !.states[kern.proc[kern.sched.cur].cognitive].lock = "free",
                  !.sched = SchedAdvance(@)]
    /\ UNCHANGED <<as, atom, rule, eng, inf, call, ret, ctx>>

\* lock(&opencog_lock); reasoning_cycle(global_reasoner);
\* reasoning_cycles++; unlock(&opencog_lock)
SchedGlobal ==
    /\ kern.sched.pc = "global"
    /\ kern.lock = NULL
    /\ kern' = [kern EXCEPT !.global_last_cycle = kern.sched.now,
                            !.reasoning_cycles = @ + 1,
                            !.sched = IdleSched]
    /\ ret' = [op |-> "cognitive_schedule", val |-> NULL, pre |-> ret.pre]
    /\ UNCHANGED <<as, atom, rule, eng, inf, call, ctx>>

----------------------------------------------------------------------------
(* Specifications *)

Init ==
    /\ \E c \in 1 .. MaxCap : as = tensor_atomspace_create(c)
    /\ atom = <<>>
    /\ rule = <<>>
    /\ eng = tensor_logic_create
    /\ inf = <<>>
    /\ call = IdleCall
    /\ ret = [op |-> "none", val |-> NULL, pre |-> 0]
    /\ ctx = gradient_context_create
    /\ kern = opencoginit

\* the queries callers hand to compute_attention
QueryMenu == { <<1000, 0>>, <<0, 1000>>, <<-500, 500>> }

\* the (type, name, tv) arguments callers hand to tensor_atom_create
AtomMenu ==
    { <<0, <<112>>, tensor_tv_create(800, 600)>>,
      <<0, <<99>>, tensor_tv_create(500, 100)>>,
      <<1, <<99>>, DefaultTv(<<-82, -39>>)>>,
      <<1, <<112>>, DefaultTv(<<700, -300>>)>> }

NextStore ==
    \/ \E m \in AtomMenu : CreateAtom(m[1], m[2], m[3])
    \/ \E q \in QueryMenu : ComputeAttention(q)
    \/ \E k \in 0 .. MaxK : GetTopK(k)

SpecStore == Init /\ [][NextStore]_vars

NextKernel ==
    \/ \E n \in 1 .. MaxAtomsMenu :
           Len(kern.spaces) < MaxSpaces /\ AtomspaceCreate(n)
    \/ \E s \in 1 .. Len(kern.spaces) :
           /\ kern.spaces[s].natoms < kern.spaces[s].maxatoms + MaxOverfill
           /\ KernelAtomCreate(s)
    \/ \E p \in Procs : Len(kern.states) < MaxStates /\ ProcCognitiveInit(p)
    \/ \E p \in Procs : ProcCognitiveCleanup(p)
    \/ \E p \in Procs : KernelLock(p)
    \/ \E p \in Procs : KernelLoad(p)
    \/ \E p \in Procs : KernelStore(p)
    \/ \E p \in Procs : KernelUnlock(p)
    \/ \E p \in Procs : KernelFinish(p)

SpecKernel == Init /\ [][NextKernel]_vars

\* the (type, name, tv) arguments used around the inference engine
InferAtomMenu ==
    << <<0, <<112>>, tensor_tv_create(800, 600)>>,
       <<0, <<99>>, tensor_tv_create(500, 100)>> >>

\* premise arrays of one or two atoms
PremiseArrays ==
    { <<a>> : a \in 1 .. Len(atom) }
      \cup { <<x[1], x[2]>> :
                x \in { y \in (1 .. Len(atom)) \X (1 .. Len(atom)) : y[1] < y[2] } }

InferStep == InferScan \/ InferApply \/ InferReturn

NextInfer ==
    \/ LET m == InferAtomMenu[Min(Len(atom) + 1, Len(InferAtomMenu))]
       IN  Len(rule) = 0 /\ CreateAtom(m[1], m[2], m[3])
    \/ \E a \in 1 .. Len(atom) :
          eng.calls = 0 /\ UpdateEmbedding(a, <<0, 0>>)
    \/ \E ps \in PremiseArrays, c \in 1 .. Len(atom) :
          /\ Len(rule) < MaxRules
          /\ eng.num_rules >= Len(rule)
          /\ eng.calls = 0
          /\ RuleCreate(ps, c)
    \/ \E r \in 1 .. Len(rule) :
          eng.num_rules < MaxAdds /\ eng.calls = 0 /\ AddRule(r)
    \/ \E q \in 1 .. Len(atom), ms \in 0 .. MaxSteps, st \in StrayMenu \cup {NoStray} :
          eng.calls < MaxCalls /\ InferBegin(q, ms, st)
    \/ InferScan
    \/ InferApply
    \/ InferReturn
    \/ EngineDestroy

SpecInfer == Init /\ [][NextInfer]_vars

\* the gradient vectors callers accumulate
GradMenu == { <<40000, 0, 0>>, <<-40000, 40000, -40000>> }

\* the targets handed to train_step
TargetMenu == { tensor_tv_create(800, 600), tensor_tv_create(300, 900) }

\* atoms and one rule over them, created and added before anything else
TrainSetup ==
    \/ LET m == InferAtomMenu[Min(Len(atom) + 1, Len(InferAtomMenu))]
       IN  Len(rule) = 0 /\ Len(atom) < Len(InferAtomMenu)
             /\ CreateAtom(m[1], m[2], m[3])
    \/ \E ps \in PremiseArrays :
          /\ Len(rule) < MaxTrainRules
          /\ eng.num_rules >= Len(rule)
          /\ RuleCreate(ps, Len(atom))
    \/ \E r \in 1 .. Len(rule) :
          eng.num_rules < MaxTrainRules /\ r > eng.num_rules /\ AddRule(r)

NextGrad ==
    \/ ctx.num_steps = 0 /\ ctx.gradients = ZeroBuf /\ TrainSetup
    \/ \E g \in GradMenu : Accumulate(g)
    \/ StoreLoss(5 * One)
    \/ Zero
    \/ ctx.num_steps < MaxAdam /\ ApplyAdam
    \/ \E r \in 1 .. Len(rule) : UpdateWeights(r)

SpecGrad == Init /\ [][NextGrad]_vars

NextTrain ==
    \/ ctx.gradients = ZeroBuf /\ TrainSetup
    \/ \E g \in GradMenu : eng.calls = 0 /\ eng.num_rules > 0 /\ Accumulate(g)
    \/ \E r \in 1 .. Len(rule) : eng.num_rules > 0 /\ UpdateWeights(r)
    \/ \E q \in 1 .. Len(atom), t \in TargetMenu, st \in StrayMenu \cup {NoStray} :
          eng.calls < MaxTrainCalls /\ TrainBegin(q, t, st)
    \/ InferScan
    \/ InferApply
    \/ TrainReturn

SpecTrain == Init /\ [][NextTrain]_vars

\* the caller runs tensor_logic_infer to its return
FairInfer == Init /\ [][NextInfer]_vars /\ WF_vars(InferStep)

----------------------------------------------------------------------------
(* Claims about the knowledge store *)

\* C1: create_atom on a store whose count equals its capacity returns NULL
\* and leaves the count as it was before the call.
C1_CreateAtCapacityFails ==
    (ret.op = "create_atom" /\ ret.pre = as.maxatoms)
        => (ret.val = NULL /\ as.natoms = ret.pre)

C1_Witness ==
    /\ ret.op = "create_atom"
    /\ ret.pre = as.maxatoms
    /\ ret.val = NULL
    /\ as.natoms = as.maxatoms

\* C2: whatever create_atom calls were made, successful or failed, the
\* count of the store never exceeds its capacity.
C2_CountWithinCapacity ==
    /\ as.natoms <= as.maxatoms
    /\ Cardinality(StoreAtoms) <= as.maxatoms

C2_Witness ==
    /\ as.natoms = as.maxatoms
    /\ as.maxatoms > 1
    /\ ret.op = "create_atom"
    /\ ret.val = NULL

----------------------------------------------------------------------------
(* Claims about inference *)

\* the nodes allocated and not yet freed
LiveNodes == { n \in 1 .. Len(inf) : inf[n].live }

\* C4: every infer call runs to completion within its step bound: the chain
\* it builds never has more than max_steps nodes, and a call that has
\* entered its step loop reaches its return.
C4_InferCompletesWithinBound ==
    /\ [](call.pc \in {"scan", "ret"} =>
             Len(NodesFrom(call.chain)) <= call.max_steps)
    /\ (call.pc = "scan") ~> (call.pc \in {"ret", "fault"})

\* a premise has an atom of the relevant set at similarity >= 0.5
PremiseMatched(p, relevant) ==
    \E j \in 1 .. Len(relevant) : tensor_atom_similarity(p, relevant[j]) >= 500

\* the rules of the list all of whose premises are matched
SatisfiedRules ==
    { r \in RulesInList :
        \A i \in 1 .. Len(rule[r].premises) :
            PremiseMatched(rule[r].premises[i], call.relevant) }

\* the best similarity a premise finds in the relevant set
BestMatch(p, relevant) ==
    LET sims == { tensor_atom_similarity(p, relevant[j]) : j \in 1 .. Len(relevant) }
    IN  CHOOSE m \in sims : \A x \in sims : x <= m

RECURSIVE AggregateScore(_, _)
\* sum over the premises of best similarity times premise weight
AggregateScore(r, i) ==
    IF i > Len(rule[r].premises) THEN 0
    ELSE Mul(BestMatch(rule[r].premises[i], call.relevant),
             rule[r].premise_weights[i]) + AggregateScore(r, i + 1)

\* C5: the rule applied in a step is a satisfied rule whose aggregate
\* weighted similarity is the highest among the satisfied rules; when no
\* rule is satisfied nothing is applied and infer goes to its return.
C5_BestSatisfiedRuleApplied ==
    [][ (call.pc = "scan" /\ call.cursor = NULL) =>
          IF SatisfiedRules = {}
          THEN inf' = inf /\ atom' = atom /\ call'.pc = "ret"
          ELSE /\ Len(inf') = Len(inf) + 1
               /\ inf'[Len(inf')].rule \in SatisfiedRules
               /\ \A r2 \in SatisfiedRules :
                     AggregateScore(r2, 1)
                        <= AggregateScore(inf'[Len(inf')].rule, 1) ]_vars

C5_Witness ==
    /\ call.pc = "ret"
    /\ call.last # NULL
    /\ Cardinality(RulesInList) = 2
    /\ eng.rules # inf[call.last].rule
    /\ call.stray.kind = "junk"

\* C6: after a step whose conclusion is more than 0.9 similar to the query
\* infer stops; otherwise it stops when the step count reaches max_steps;
\* only otherwise does it start another step.
C6_StopsWhenSatisfiedOrExhausted ==
    [][ (call.pc = "scan" /\ call.cursor = NULL /\ call.best_rule # NULL) =>
          LET c == rule[call.best_rule].conclusion
              query_sim == Similarity(atom'[call.query].embedding,
                                      atom'[c].embedding)
          IN  IF query_sim > 900 THEN call'.pc = "ret"
              ELSE IF call.step + 1 >= call.max_steps THEN call'.pc = "ret"
              ELSE /\ call'.pc = "scan"
                   /\ call'.cursor = eng.rules
                   /\ call'.step = call.step + 1 ]_vars

C6_Witness ==
    /\ call.pc = "ret"
    /\ call.exit = "Satisfied"
    /\ Len(NodesFrom(call.chain)) = 1
    /\ call.max_steps = 2

\* the scenario of C7 as infer is about to return: one rule on the list,
\* one premise of strength 0.8 that is the query and still has the
\* embedding it was created with, a conclusion that had strength 0.5,
\* max_steps = 1
C7_Scenario(r) ==
    /\ call.pc = "ret"
    /\ call.max_steps = 1
    /\ eng.num_rules = 1
    /\ RulesInList = {r}
    /\ Len(rule[r].premises) = 1
    /\ rule[r].premises[1] = call.query
    /\ atom[call.query].tv.strength = 800
    /\ atom[call.query].embedding
          = AtomEmbedding(atom[call.query].tv, atom[call.query].name)
    /\ 500 = IF call.chain = NULL THEN atom[rule[r].conclusion].tv.strength
             ELSE inf[call.chain].prior

C8_OldChainReleased ==
    (call.pc = "idle") =>
        LiveNodes \subseteq SeqToSet(NodesFrom(eng.inference_chain))

\* C10 as stated: apply returns the strength the conclusion holds after it.
C10_ApplyReturnsBlended ==
    (call.pc \in {"scan", "ret"} /\ call.last # NULL) =>
        inf[call.last].result = atom[inf[call.last].conclusion].tv.strength

\* C10 amended: apply returns combined_strength * rule.weight, the value
\* that is averaged into the conclusion; the strength after the call is
\* the average of the previous strength and the value returned.
C10_ApplyReturnsNewStrength ==
    (call.pc \in {"scan", "ret"} /\ call.last # NULL) =>
        LET n == inf[call.last]
        IN  /\ atom[n.conclusion].tv.strength = Quot(n.prior + n.result, 2)
            /\ (\A i \in 1 .. Len(rule[n.rule].premises) :
                    rule[n.rule].premises[i] # n.conclusion)
                 => n.result = Mul(WeightedStrength(n.rule, 1), rule[n.rule].weight)

C10_Witness ==
    /\ call.pc = "ret"
    /\ call.last # NULL
    /\ inf[call.last].result = 800
    /\ inf[call.last].prior = 500
    /\ atom[inf[call.last].conclusion].tv.strength = 650

----------------------------------------------------------------------------
(* Claims about training and the gradient context *)

\* C11: after a train_step whose inference produced a non-empty chain, the
\* loss stored on the gradient context is (s - target.strength)^2, s being
\* the strength of the conclusion of the final node of that chain.
C11_LossOfFinalConclusion ==
    (ret.op = "train_step" /\ ret.val # NULL /\ call.pc = "idle") =>
        ctx.loss = SquaredError(atom[inf[ret.pre.last].conclusion].tv.strength,
                                ret.pre.target)

\* C12 as stated: every train_step call increments the store's
\* training-step counter by exactly one.
C12_EveryTrainStepCounts ==
    (ret.op = "train_step") => as.training_steps = ret.pre.training_steps + 1

\* C12 amended: a train_step call whose inference produced a non-empty
\* chain increments the training-step counter by exactly one; a call whose
\* inference produced no chain leaves the counter as it was.
C12_TrainStepCountsChains ==
    (ret.op = "train_step") =>
        as.training_steps
            = ret.pre.training_steps + (IF ret.val # NULL THEN 1 ELSE 0)

C12_Witness ==
    /\ ret.op = "train_step"
    /\ ret.val # NULL
    /\ eng.calls = 2
    /\ as.training_steps = 1

\* C13: after any sequence of update_weights and train_step calls every
\* rule's weight lies in [0, 2].
C13_RuleWeightClamped ==
    \A r \in 1 .. Len(rule) : rule[r].weight >= 0 /\ rule[r].weight <= 2 * One

C13_Witness ==
    /\ ret.op = "train_step"
    /\ ret.val # NULL
    /\ \E r \in 1 .. Len(rule) : rule[r].weight = 2 * One

\* C14: the premise weights of a rule are 1/n each right after create, and
\* after every update_weights call they are all positive and sum to 1 (to
\* within one unit of the last kept decimal per premise).
C14_PremiseWeightsNormalized ==
    \A r \in 1 .. Len(rule) :
        LET ws == rule[r].premise_weights
            n  == Len(rule[r].premises)
        IN  /\ Len(ws) = n
            /\ \A i \in 1 .. n : ws[i] > 0
            /\ SumOf(ws) <= One
            /\ SumOf(ws) >= One - n
            /\ (ret.op = "rule_create" /\ ret.val = r) =>
                   \A i \in 1 .. n : ws[i] = Quot(One, n)

C14_Witness ==
    /\ ret.op = "update_weights"
    /\ Len(rule[ret.val].premises) = 2
    /\ rule[ret.val].premise_weights[1] < rule[ret.val].premise_weights[2]

\* C15: each gradient_context_apply (Adam) call raises the step counter of
\* the gradient context by exactly 1, so two calls in a row raise it by 2.
C15_AdamCountsEachCall ==
    (ret.op = "apply_adam") => ctx.num_steps = ret.pre + 1

C15_Witness ==
    /\ ret.op = "apply_adam"
    /\ ret.pre = 1
    /\ ctx.num_steps = 2

\* C16: zero sets every gradient entry and the loss to 0 and leaves both
\* Adam moment buffers and the step counter as they were.
C16_ZeroKeepsAdamState ==
    (ret.op = "zero") =>
        /\ ctx.gradients = ZeroBuf
        /\ ctx.loss = 0
        /\ ctx.m = ret.pre.m
        /\ ctx.v = ret.pre.v
        /\ ctx.num_steps = ret.pre.num_steps

C16_Witness ==
    /\ ret.op = "zero"
    /\ ret.pre.gradients # ZeroBuf
    /\ ret.pre.loss # 0
    /\ ctx.m # ZeroBuf
    /\ ctx.v # ZeroBuf
    /\ ctx.num_steps > 0

----------------------------------------------------------------------------
(* Links, unification and truth-value merge *)

MaxLinks == 2
UnifyDepth == 3

\* the value standing for a call stack exhausted by unbounded recursion
StackOverflow == -1

\* tensor_atom_add_link(atom, target): arity is incremented before the
\* embedding is averaged with the target's
AddLink(a, target) ==
    /\ call.pc = "idle"
    /\ atom' = [atom EXCEPT
                  ![a].outgoing = Append(@, target),
                  ![a].embedding =
                      LET arity == Len(atom[a].outgoing) + 1
                      IN  [i \in 1 .. 2 |->
                             Quot(atom[a].embedding[i] * arity
                                    + atom[target].embedding[i], arity + 1)]]
    /\ ret' = [op |-> "add_link", val |-> a, pre |-> target]
    /\ UNCHANGED <<as, rule, eng, inf, call, ctx, kern>>

\* variant of the type test that lets every pair through
TypesDiffer_never(p, t) == FALSE

\* if (pattern->type != target->type) return 0;
TypesDiffer(p, t) == atom[p].type # atom[t].type

RECURSIVE tensor_atom_unify(_, _, _)
RECURSIVE UnifyOutgoing(_, _, _, _)
\* tensor_atom_unify(pattern, target, bindings) with `depth` frames of
\* stack left: 1, 0, or StackOverflow when the recursion does not end
tensor_atom_unify(p, t, depth) ==
    IF p = NULL \/ t = NULL THEN 0
    ELSE IF TypesDiffer(p, t) THEN 0
    ELSE IF tensor_atom_similarity(p, t) < 700 THEN 0
    ELSE IF Len(atom[p].outgoing) # Len(atom[t].outgoing) THEN 0
    ELSE UnifyOutgoing(p, t, 1, depth)

\* the loop over pattern->outgoing[i], target->outgoing[i]
UnifyOutgoing(p, t, i, depth) ==
    IF i > Len(atom[p].outgoing) THEN 1
    ELSE IF depth = 0 THEN StackOverflow
    ELSE LET r == tensor_atom_unify(atom[p].outgoing[i], atom[t].outgoing[i],
                                    depth - 1)
         IN  IF r # 1 THEN r ELSE UnifyOutgoing(p, t, i + 1, depth)

Unify(p, t) ==
    /\ call.pc = "idle"
    /\ ret' = [op |-> "unify", val |-> tensor_atom_unify(p, t, UnifyDepth),
               pre |-> <<p, t>>]
    /\ UNCHANGED <<as, atom, rule, eng, inf, call, ctx, kern>>

\* variant of the merged confidence that adds the two confidences
MergeConfidence_sum(w1, w2) == Min(w1 + w2, One)

\* result->confidence = (w1 + w2) / (1.0f + w1 + w2)
MergeConfidence(w1, w2) == Quot((w1 + w2) * One, One + w1 + w2)

\* tensor_tv_merge(tv1, tv2); total = w1 + w2 + 1e-10 makes 0/total = 0
tensor_tv_merge(tv1, tv2) ==
    LET w1    == tv1.confidence
        w2    == tv2.confidence
        total == w1 + w2
        Avg(x1, x2) == IF total = 0 THEN 0
                       ELSE Quot(w1 * x1 + w2 * x2, total)
    IN  [strength   |-> Avg(tv1.strength, tv2.strength),
         confidence |-> MergeConfidence(w1, w2),
         evidence   |-> tv1.evidence + tv2.evidence,
         embedding  |-> [i \in 1 .. 2 |-> Avg(tv1.embedding[i], tv2.embedding[i])]]

Merge(tv1, tv2) ==
    /\ call.pc = "idle"
    /\ ret' = [op |-> "merge", val |-> tensor_tv_merge(tv1, tv2),
               pre |-> <<tv1, tv2>>]
    /\ UNCHANGED <<as, atom, rule, eng, inf, call, ctx, kern>>

\* atoms of both types over the same name and truth value, and one apart
UnifyAtomMenu ==
    { <<0, <<112>>, tensor_tv_create(800, 600)>>,
      <<1, <<112>>, tensor_tv_create(800, 600)>>,
      <<0, <<99>>, tensor_tv_create(500, 100)>> }

\* the truth values callers hand to tensor_tv_merge
MergeMenu ==
    { tensor_tv_create(800, 600), tensor_tv_create(400, 300),
      tensor_tv_create(500, 0) }

TotalLinks == SumOf([a \in 1 .. Len(atom) |-> Len(atom[a].outgoing)])

NextUnify ==
    \/ \E m \in UnifyAtomMenu : TotalLinks = 0 /\ CreateAtom(m[1], m[2], m[3])
    \/ \E a, t \in 1 .. Len(atom) : TotalLinks < MaxLinks /\ AddLink(a, t)
    \/ \E p, t \in 0 .. Len(atom) : Unify(p, t)
    \/ \E tv1, tv2 \in MergeMenu : Merge(tv1, tv2)

SpecUnify == Init /\ [][NextUnify]_vars

\* C17: unify(p, t) returns false whenever p.type differs from t.type or
\* p.arity differs from t.arity, whatever the similarity of the embeddings.
C17_UnifyNeedsTypeAndArity ==
    (/\ ret.op = "unify"
     /\ ret.pre[1] # NULL
     /\ ret.pre[2] # NULL
     /\ \/ atom[ret.pre[1]].type # atom[ret.pre[2]].type
        \/ Len(atom[ret.pre[1]].outgoing) # Len(atom[ret.pre[2]].outgoing))
    => ret.val = 0

C17_Witness ==
    /\ ret.op = "unify"
    /\ ret.pre[1] # NULL
    /\ ret.pre[2] # NULL
    /\ atom[ret.pre[1]].type # atom[ret.pre[2]].type
    /\ Len(atom[ret.pre[1]].outgoing) = Len(atom[ret.pre[2]].outgoing)
    /\ tensor_atom_similarity(ret.pre[1], ret.pre[2]) = One
    /\ ret.val = 0

\* C18 as stated: merge(create(0.8,0.6), create(0.8,0.6)) has strength 0.8
\* and a confidence strictly greater than the 0.6 of either input.
C18_MergeRaisesConfidence ==
    (/\ ret.op = "merge"
     /\ ret.pre = <<tensor_tv_create(800, 600), tensor_tv_create(800, 600)>>)
    => /\ ret.val.strength = 800
       /\ ret.val.confidence > 600

\* C18 amended: merge(create(0.8,0.6), create(0.8,0.6)) has strength 0.8
\* and confidence (0.6 + 0.6) / (1 + 0.6 + 0.6) = 0.545, which is lower
\* than the 0.6 of either input.
C18_MergeOfEqualsLowersConfidence ==
    (/\ ret.op = "merge"
     /\ ret.pre = <<tensor_tv_create(800, 600), tensor_tv_create(800, 600)>>)
    => /\ ret.val.strength = 800
       /\ ret.val.confidence = 545
       /\ ret.val.confidence < 600

C18_Witness ==
    /\ ret.op = "merge"
    /\ ret.pre = <<tensor_tv_create(800, 600), tensor_tv_create(800, 600)>>
    /\ ret.val.strength = 800

----------------------------------------------------------------------------
(* Claims about the kernel *)

\* C19: kernel atom_create refuses to add an atom to an AtomSpace that
\* already holds maxatoms atoms: it returns nil, so natoms never exceeds
\* maxatoms.
C19_AtomCreateRefusesWhenFull ==
    /\ \A s \in 1 .. Len(kern.spaces) :
           kern.spaces[s].natoms <= kern.spaces[s].maxatoms
    /\ (/\ ret.op = "atom_create"
        /\ ret.pre.natoms >= kern.spaces[ret.pre.space].maxatoms)
       => ret.val = NULL

\* cognitive states allocated and not yet freed
LiveStates == { c \in 1 .. Len(kern.states) : kern.states[c].live }

\* processes between the allocation of a state and the counter's increment
Uncounted ==
    { p \in Procs : kern.proc[p].op = "init"
                    /\ kern.proc[p].pc \in {"lock", "load", "store"} }

\* processes between the counter's decrement and the release of the state
Unreleased ==
    { p \in Procs : kern.proc[p].op = "cleanup"
                    /\ kern.proc[p].pc \in {"unlock", "finish"} }

Quiescent == \A p \in Procs : kern.proc[p].pc = "idle"

\* C20: the cognitive_processes counter equals the number of cognitive
\* states created and not yet cleaned up, for any interleaving of creations
\* and cleanups: it is never negative, it equals the number of live states
\* whenever no creation or cleanup is under way (and up to the operations
\* under way otherwise), and it is 0 once every state has been released.
C20_CounterTracksLiveStates ==
    /\ kern.cognitive_processes >= 0
    /\ kern.cognitive_processes
           = Cardinality(LiveStates) - Cardinality(Uncounted)
               - Cardinality(Unreleased)
    /\ Quiescent => kern.cognitive_processes = Cardinality(LiveStates)
    /\ (Quiescent /\ LiveStates = {}) => kern.cognitive_processes = 0

C20_Witness ==
    /\ Quiescent
    /\ Len(kern.states) = MaxStates
    /\ LiveStates = {}
    /\ kern.cognitive_processes = 0

----------------------------------------------------------------------------
(* The cognitive scheduler *)

MaxPasses == 2

\* priorities below 0, inside 0..100 and above 100
PriMenu == {-10, 50, 150}

StateMenu == {"Running", "Ready", "Dead"}

NextSched ==
    \/ \E p \in Procs :
           /\ kern.sched.pc = "idle"
           /\ Quiescent
           /\ kern.proc[p].cognitive = NULL
           /\ ProcCognitiveInit(p)
    \/ \E p \in Procs : KernelLock(p)
    \/ \E p \in Procs : KernelLoad(p)
    \/ \E p \in Procs : KernelStore(p)
    \/ \E p \in Procs : KernelUnlock(p)
    \/ \E p \in Procs : KernelFinish(p)
    \/ \E p \in Procs, pri \in PriMenu, st \in StateMenu :
           Quiescent /\ kern.clock = 0 /\ ProcSet(p, pri, st)
    \/ Quiescent /\ kern.clock < MaxPasses /\ SchedBegin
    \/ SchedLock
    \/ SchedUpdate
    \/ SchedUnlock
    \/ SchedGlobal

SpecSched == Init /\ [][NextSched]_vars

\* C21: after every cognitive_schedule pass the attention level of every
\* process that has a cognitive state lies in [0,1], whatever the process
\* priority is, priorities above 100 and negative priorities included.
C21_AttentionWithinUnitInterval ==
    (ret.op = "cognitive_schedule") =>
        \A p \in Procs :
            kern.proc[p].cognitive # NULL =>
                /\ kern.states[kern.proc[p].cognitive].attention_level >= 0
                /\ kern.states[kern.proc[p].cognitive].attention_level <= One

\* C22: one cognitive_schedule pass increases reasoning_cycles by exactly
\* the number of Running or Ready processes that have a cognitive state,
\* plus 1 for the global reasoner.
C22_PassCountsActiveReasoners ==
    (ret.op = "cognitive_schedule") =>
        kern.reasoning_cycles
            = ret.pre.reasoning_cycles + ret.pre.active + 1

----------------------------------------------------------------------------
(* Claims about memory safety of the store and of infer *)

\* C23: every successful create_atom writes the new atom's embedding into
\* a row inside the store's C x D embedding matrix (rows 0 .. C-1), for
\* every id the store hands out, the id equal to the capacity C included.
C23_EmbeddingRowInsideMatrix ==
    /\ \A rw \in as.rows : rw >= 0 /\ rw < as.maxatoms
    /\ (ret.op = "create_atom" /\ ret.val # NULL) =>
           atom[ret.val].id < as.maxatoms

\* C24: infer reads only the entries of the relevant set that get_top_k
\* filled, min(10, count) of them; it never indexes past the returned array
\* or reads an unset slot.
C24_InferReadsOnlyFilledSlots ==
    call.mode = "infer" => ~call.oob

----------------------------------------------------------------------------
(* The store-wide clear of the atomspace device file *)

MaxLinked == 4

\* write "clear" to the atomspace file: natoms = 0; next_id = 1; the
\* buckets are left as they are
atomspace_clear(sp) == [sp EXCEPT !.natoms = 0, !.next_id = 1]

KernelClear(s) ==
    /\ kern' = [kern EXCEPT !.spaces[s] = atomspace_clear(@)]
    /\ ret' = [op |-> "clear", val |-> s, pre |-> kern.spaces[s].natoms]
    /\ UNCHANGED <<as, atom, rule, eng, inf, call, ctx>>

\* the ids of the atoms linked in the buckets of a space, bucket by bucket
RECURSIVE LinkedFrom(_, _)
LinkedFrom(sp, b) ==
    IF b >= sp.maxatoms THEN <<>> ELSE sp.atoms[b] \o LinkedFrom(sp, b + 1)

Linked(sp) == LinkedFrom(sp, 0)

NextClear ==
    \/ \E n \in 1 .. MaxAtomsMenu :
           Len(kern.spaces) < MaxSpaces /\ AtomspaceCreate(n)
    \/ \E s \in 1 .. Len(kern.spaces) :
           /\ Len(Linked(kern.spaces[s])) < MaxLinked
           /\ KernelAtomCreate(s)
    \/ \E s \in 1 .. Len(kern.spaces) : KernelClear(s)

SpecClear == Init /\ [][NextClear]_vars

\* C26: after a store-wide clear every atom linked before the clear is
\* freed or ignored: the atoms linked in the buckets never outnumber the
\* count, and an id identifies exactly one linked atom.
C26_ClearEmptiesStore ==
    \A s \in 1 .. Len(kern.spaces) :
        LET ids == Linked(kern.spaces[s])
        IN  /\ Len(ids) <= kern.spaces[s].natoms
            /\ \A i, j \in 1 .. Len(ids) : ids[i] = ids[j] => i = j

----------------------------------------------------------------------------
(* Claims about recursion, the rule list and the effect of training *)

\* C25: unify's recursion is bounded: unify(pattern, target) terminates for
\* every pair of atoms, atoms whose outgoing edges form a cycle included.
C25_UnifyTerminates ==
    (ret.op = "unify") => ret.val \in {0, 1}

\* C27: after any sequence of add_rule calls the engine's rule list is a
\* finite acyclic list whose length equals the engine's rule count, also
\* when the same rule is added more than once.
C27_RuleListAcyclic ==
    eng.alive =>
        /\ ~RuleListCyclic
        /\ Cardinality(RulesInList) = eng.num_rules

\* C28: a train_step whose computed loss is non-zero changes at least one
\* learnable parameter: a rule's weight or premise weight, or an entry of
\* one of the four projection matrices.
C28_TrainStepAdjustsParameters ==
    (/\ ret.op = "train_step"
     /\ ret.val # NULL
     /\ ret.pre.loss # 0)
    => Learnable # ret.pre.learnable

----------------------------------------------------------------------------
(* Device-file writes to a process's cognitive state *)

MaxWrites == 2

\* motivation += 0.1 capped at 1.0 ("focus"), -= 0.1 floored at 0 ("relax")
ThinkMotivation(cmd, mot) ==
    IF cmd = "focus" THEN (IF mot + 100 > One THEN One ELSE mot + 100)
    ELSE (IF mot - 100 < 0 THEN 0 ELSE mot - 100)

\* write "focus" or "relax" to the think file by process p: the fields are
\* stored without taking cs->Lock; `holder` is who held it at the time
\* ("free", "sched", or "writer" had the writer taken it)
DevThink(p, cmd) ==
    /\ kern.proc[p].pc = "idle"
    /\ LET c == kern.proc[p].cognitive
       IN  IF c = NULL
           THEN /\ ret' = [op |-> "dev_write", val |-> NULL,
                           pre |-> [holder |-> "none"]]
                /\ UNCHANGED kern
           ELSE /\ kern' = [kern EXCEPT
                              !.states[c].attention_level =
                                  IF cmd = "focus" THEN One ELSE 500,
                              !.states[c].motivation = ThinkMotivation(cmd, @),
                              !.writes = @ + 1]
                /\ ret' = [op |-> "dev_write", val |-> c,
                           pre |-> [holder |-> kern.states[c].lock]]
    /\ UNCHANGED <<as, atom, rule, eng, inf, call, ctx>>

\* write a level to the attention file by process p, which has a state:
\* levels outside [0,1] are dropped, others stored without cs->Lock
DevAttention(p, level) ==
    /\ kern.proc[p].pc = "idle"
    /\ kern.proc[p].cognitive # NULL
    /\ LET c == kern.proc[p].cognitive
       IN  IF level >= 0 /\ level <= One
           THEN /\ kern' = [kern EXCEPT !.states[c].attention_level = level,
                                        !.writes = @ + 1]
                /\ ret' = [op |-> "dev_write", val |-> c,
                           pre |-> [holder |-> kern.states[c].lock]]
           ELSE /\ ret' = [op |-> "dev_write", val |-> NULL,
                           pre |-> [holder |-> "none"]]
                /\ UNCHANGED kern
    /\ UNCHANGED <<as, atom, rule, eng, inf, call, ctx>>

LevelMenu == {-100, 250, 2 * One}

NextDev ==
    \/ \E p \in Procs :
           /\ kern.sched.pc = "idle"
           /\ Quiescent
           /\ kern.proc[p].cognitive = NULL
           /\ kern.clock = 0
           /\ ProcCognitiveInit(p)
    \/ \E p \in Procs : KernelLock(p)
    \/ \E p \in Procs : KernelLoad(p)
    \/ \E p \in Procs : KernelStore(p)
    \/ \E p \in Procs : KernelUnlock(p)
    \/ \E p \in Procs : KernelFinish(p)
    \/ Quiescent /\ kern.clock < MaxPasses /\ SchedBegin
    \/ SchedLock
    \/ SchedUpdate
    \/ SchedUnlock
    \/ SchedGlobal
    \/ \E p \in Procs, cmd \in {"focus", "relax"} :
           kern.writes < MaxWrites /\ DevThink(p, cmd)
    \/ \E p \in Procs, level \in LevelMenu :
           kern.writes < MaxWrites /\ DevAttention(p, level)

SpecDev == Init /\ [][NextDev]_vars

\* C29: every write to a process's cognitive state that can run
\* concurrently with the scheduler is made while holding that state's lock,
\* so a scheduler pass and a device write never interleave on one state.
C29_StateWritesHoldLock ==
    /\ (ret.op = "dev_write" /\ ret.val # NULL) =>
           /\ ret.pre.holder # "sched"
           /\ ret.pre.holder = "writer"
    /\ kern.sched.pc = "unlock" =>
           kern.states[kern.proc[kern.sched.cur].cognitive].lock = "sched"

----------------------------------------------------------------------------
(* Lock acquisition of the kernel operations *)

Acq(k, i) == [do |-> "lock", l |-> <<k, i>>]
Rel(k, i) == [do |-> "unlock", l |-> <<k, i>>]

\* variant of reasoning_cycle that counts the cycle under opencog_lock
ReasoningCycleLocks_counting(i) ==
    <<Acq("re", i), Acq("opencog", 0), Rel("opencog", 0), Rel("re", i)>>

\* reasoning_cycle(re): lock(&re->Lock) ... unlock(&re->Lock)
ReasoningCycleLocks(i) == <<Acq("re", i), Rel("re", i)>>

RECURSIVE ScheduleLoopLocks(_)
\* cognitive_schedule(): the loop over the processes from p on
ScheduleLoopLocks(p) ==
    IF p > NProcs THEN <<>>
    ELSE <<Acq("cs", p)>> \o ReasoningCycleLocks(p) \o <<Rel("cs", p)>>
            \o ScheduleLoopLocks(p + 1)

\* cognitive_schedule(): the loop, then the global reasoner under
\* opencog_lock
ScheduleLocks ==
    ScheduleLoopLocks(1) \o <<Acq("opencog", 0)>> \o ReasoningCycleLocks(0)
        \o <<Rel("opencog", 0)>>

\* atom_create(as, ...): as->Lock, released, then opencog_lock
AtomCreateLocks(p) ==
    <<Acq("as", p), Rel("as", p), Acq("opencog", 0), Rel("opencog", 0)>>

\* goal_add(parent, subgoal): parent->Lock
GoalAddLocks(p) == <<Acq("goal", p), Rel("goal", p)>>

\* cognitive_create(): opencog_lock around the counter; the statistics
\* read of the device takes the same lock alone
CognitiveCreateLocks == <<Acq("opencog", 0), Rel("opencog", 0)>>

\* opencoginit(): goal_add on the system goals inside opencog_lock
OpencogInitLocks ==
    <<Acq("opencog", 0)>> \o GoalAddLocks(0) \o <<Rel("opencog", 0)>>

\* the operations a thread can run and their lock calls; a process works
\* on its own state, reasoner, atom space and goals
LockProgram(t, op) ==
    CASE op = "schedule"    -> ScheduleLocks
      [] op = "cycle"       -> ReasoningCycleLocks(t)
      [] op = "atom_create" -> AtomCreateLocks(t)
      [] op = "goal_add"    -> GoalAddLocks(t)
      [] op = "stats"       -> CognitiveCreateLocks
      [] op = "create"      -> CognitiveCreateLocks \o AtomCreateLocks(t)
      [] op = "init"        -> CognitiveCreateLocks \o GoalAddLocks(t)
      [] op = "boot"        -> OpencogInitLocks

\* the kernel thread initialises the subsystem and runs passes; a process
\* can also run a pass by writing "sync" to the distributed file
OpMenu(t) ==
    IF t = SchedThread THEN {"schedule", "boot"}
    ELSE {"schedule", "cycle", "atom_create", "goal_add", "stats", "create",
          "init"}

\* a thread enters an operation
LockStart(t, op) ==
    /\ kern.thr[t].op = "none"
    /\ kern' = [kern EXCEPT
                  !.thr[t] = [op |-> op, prog |-> LockProgram(t, op), pc |-> 1]]
    /\ UNCHANGED <<as, atom, rule, eng, inf, call, ret, ctx>>

\* the thread's position after the instruction at pc
ThreadAfter(th) ==
    IF th.pc = Len(th.prog) THEN IdleThread ELSE [th EXCEPT !.pc = @ + 1]

\* lock(&l): spins until the lock is free, whoever holds it
LockAcquire(t) ==
    /\ kern.thr[t].op # "none"
    /\ kern.thr[t].prog[kern.thr[t].pc].do = "lock"
    /\ kern.locks[kern.thr[t].prog[kern.thr[t].pc].l] = NULL
    /\ kern' = [kern EXCEPT
                  !.locks[kern.thr[t].prog[kern.thr[t].pc].l] = t,
                  !.thr[t] = ThreadAfter(@)]
    /\ UNCHANGED <<as, atom, rule, eng, inf, call, ret, ctx>>

\* unlock(&l)
LockRelease(t) ==
    /\ kern.thr[t].op # "none"
    /\ kern.thr[t].prog[kern.thr[t].pc].do = "unlock"
    /\ kern' = [kern EXCEPT
                  !.locks[kern.thr[t].prog[kern.thr[t].pc].l] = NULL,
                  !.thr[t] = ThreadAfter(@)]
    /\ UNCHANGED <<as, atom, rule, eng, inf, call, ret, ctx>>

NextLocks ==
    \/ \E t \in Threads : \E op \in OpMenu(t) : LockStart(t, op)
    \/ \E t \in Threads : LockAcquire(t)
    \/ \E t \in Threads : LockRelease(t)

SpecLocks == Init /\ [][NextLocks]_vars

\* the locks a thread holds
HeldBy(t) == { l \in LockSet : kern.locks[l] = t }

\* the lock a thread is about to take, if it is at a lock call
Wanted(t) ==
    IF kern.thr[t].op # "none" /\ kern.thr[t].prog[kern.thr[t].pc].do = "lock"
    THEN {kern.thr[t].prog[kern.thr[t].pc].l} ELSE {}

\* the thread spins on a lock that is held
Blocked(t) == \E l \in Wanted(t) : kern.locks[l] # NULL

\* a set of threads each spinning on a lock held inside the set
Deadlocked ==
    \E S \in SUBSET Threads :
        /\ S # {}
        /\ \A t \in S : Blocked(t) /\ \A l \in Wanted(t) : kern.locks[l] \in S

\* the one order: state and atom-space locks, then opencog_lock, then
\* reasoner and goal locks
LockRank(l) ==
    CASE l[1] \in {"cs", "as"}   -> 1
      [] l[1] = "opencog"        -> 2
      [] l[1] \in {"re", "goal"} -> 3

\* C30: the kernel's locks are acquired in one consistent order and never
\* re-acquired while held, so no interleaving of cognitive_schedule,
\* reasoning_cycle, atom_create, goal_add and the device reads and writes
\* deadlocks.
C30_LocksOrderedNoDeadlock ==
    /\ ~Deadlocked
    /\ \A t \in Threads : \A l \in Wanted(t) : \A h \in HeldBy(t) :
           LockRank(h) < LockRank(l)

C30_Witness ==
    \E t, u \in Threads :
        /\ t # u
        /\ Cardinality(HeldBy(t)) = 2
        /\ Blocked(u)
        /\ \A l \in Wanted(u) : kern.locks[l] = t

====
